---- MODULE Spec2Model ----
(***************************************************************************)
(* The inventory HTTP service of src/main.js: one table `inventory` in the *)
(* relational store, photo files in the cache directory, and the request   *)
(* handlers of the Express application.  A request is a chain of callbacks;*)
(* each action below is the arrival of a request (multer's upload and the  *)
(* synchronous part of the handler) or one store query together with the   *)
(* callback the store invokes with its result.                             *)
(***************************************************************************)
EXTENDS Integers, Sequences, FiniteSets, TLC

\* ------------------------------------------------------------------ bounds
\* Requests the clients send in one behaviour.
MaxRequests == 3
\* Requests the server may be handling at the same time.
MaxInFlight == 2

Slots == 1..MaxInFlight

\* ------------------------------------------------------------ JS values
\* null (a row without a photo, a request without a file).  File names are
\* the natural numbers from 1; multer gives every upload a fresh one.
NULL == 0

\* A body field: absent, JSON null, or a string (a sequence of characters).
Undefined == <<"undefined">>
JsonNull == <<"null">>
Str(s) == <<"string", s>>

IsString(v) == Len(v) = 2
\* JS truthiness of a body field: undefined, null and '' are falsy.
Truthy(v) == IsString(v) /\ v[2] # <<>>

IsWhitespace(c) == c = " "

RECURSIVE trimStart(_)
trimStart(s) ==
    IF s # <<>> /\ IsWhitespace(Head(s)) THEN trimStart(Tail(s)) ELSE s

RECURSIVE trimEnd(_)
trimEnd(s) ==
    IF s # <<>> /\ IsWhitespace(s[Len(s)])
    THEN trimEnd(SubSeq(s, 1, Len(s) - 1))
    ELSE s

\* Faulty variant: the name is stored as sent.
trimNone(s) == s

\* String.prototype.trim
trim(s) == trimEnd(trimStart(s))

DigitValue == ("0" :> 0) @@ ("1" :> 1) @@ ("2" :> 2) @@ ("3" :> 3)

RECURSIVE LeadingDigits(_)
LeadingDigits(s) ==
    IF s = <<>> \/ Head(s) \notin DOMAIN DigitValue
    THEN <<>>
    ELSE <<Head(s)>> \o LeadingDigits(Tail(s))

RECURSIVE DecimalValue(_)
DecimalValue(ds) ==
    IF ds = <<>>
    THEN 0
    ELSE DecimalValue(SubSeq(ds, 1, Len(ds) - 1)) * 10 + DigitValue[ds[Len(ds)]]

\* parseInt(s, 10) of a path parameter: the value of the leading run of
\* digits, NaN (the empty tuple) when there is none; <<n>> otherwise.
NaN == <<>>
parseInt(s) ==
    LET ds == LeadingDigits(s)
    IN  IF ds = <<>> THEN NaN ELSE <<DecimalValue(ds)>>

\* --------------------------------------------------------------- inputs
\* inventory_name / description as the clients send them.
NameStrings == {<<>>, <<" ">>, <<" ", "a", " ">>}
FormNames == {Undefined} \cup {Str(s) : s \in NameStrings}
FormDescriptions == {Undefined, Str(<<"d">>)}
\* PUT /inventory/:id takes JSON, whose fields need not be strings.
JsonNames == {Undefined, JsonNull, Str(<<>>), Str(<<"b">>)}
JsonDescriptions == {Undefined, Str(<<"e">>)}
\* The :id path parameter.
IdParams == {<<"1">>, <<"2">>, <<"x", "1">>}
\* Content of an uploaded photo; NoBytes when the request carries no file.
\* The handlers never look at the content: one content for the photos sent
\* with register and another for those sent to replace them tells them apart.
NoBytes == "none"
RegisterPhotos == {"jpgA"}
ReplacementPhotos == {"jpgB"}

\* ---------------------------------------------------------------- rows
NoItem == [id |-> 0, inventory_name |-> <<>>, description |-> <<>>,
           photo_filename |-> NULL]
NoDto == [id |-> 0, inventory_name |-> <<>>, description |-> <<>>,
          photoUrl |-> <<>>]

itemToDto(item) ==
    [id |-> item.id,
     inventory_name |-> item.inventory_name,
     description |-> item.description,
     photoUrl |-> IF item.photo_filename # NULL
                  THEN <<"/inventory/", item.id, "/photo">>
                  ELSE <<>>]

VARIABLES
    rows,       \* table inventory: id -> row
    nextId,     \* the table's AUTO_INCREMENT counter
    files,      \* cache directory: file name -> content
    nextFile,   \* the next file name multer generates
    unlinks,    \* fs.unlink calls issued and not yet carried out
    reqs,       \* per slot: the request being handled, or its response
    served,     \* requests received so far
    alive,      \* FALSE once an exception escaped a callback
    storeUp     \* whether the store answers queries (else the callback gets err)

vars == <<rows, nextId, files, nextFile, unlinks, reqs, served, alive, storeUp>>

Idle == [op |-> "none", pc |-> "idle", idp |-> <<>>,
         name |-> Undefined, description |-> Undefined,
         photo |-> NoBytes, file |-> NULL, item |-> NoItem, insertedId |-> 0,
         status |-> 0, dto |-> NoDto, bytes |-> NoBytes]

Init ==
    /\ rows = <<>>
    /\ nextId = 1
    /\ files = <<>>
    /\ nextFile = 1
    /\ unlinks = {}
    /\ reqs = [r \in Slots |-> Idle]
    /\ served = 0
    /\ alive = TRUE
    /\ storeUp = TRUE

InFlight == {r \in Slots : reqs[r].pc \notin {"idle", "done", "fault"}}

\* The server takes a new request into slot r, the first one that is free.
Accept(r, limit) ==
    /\ alive
    /\ served < MaxRequests
    /\ reqs[r].pc \in {"idle", "done"}
    /\ \A s \in Slots : s < r => reqs[s].pc \notin {"idle", "done"}
    /\ Cardinality(InFlight) < limit

\* A handler callback of the request in slot r is due.
At(r, op, pc) ==
    /\ alive
    /\ reqs[r].op = op
    /\ reqs[r].pc = pc

\* res.status(status).json(dto) / a streamed file: the request q is over.
\* What stays is what the client and the cache directory can still tell of it.
Responded(q, status, dto, bytes) ==
    [Idle EXCEPT !.op = q.op, !.pc = "done", !.idp = q.idp, !.file = q.file,
                 !.status = status, !.dto = dto, !.bytes = bytes]

\* rows[0] is undefined and itemToDto reads a property of it: a TypeError
\* thrown inside a store callback, which nothing catches.
Faulted(q) ==
    [Idle EXCEPT !.op = q.op, !.pc = "fault", !.idp = q.idp, !.file = q.file]

\* res.json(itemToDto(rows[0])) with the result `found` of a SELECT by id.
JsonFirstRow(q, status, found) ==
    IF found = <<>> THEN Faulted(q) ELSE Responded(q, status, itemToDto(found[1]), NoBytes)

\* SELECT ... FROM inventory WHERE id = ?
SelectById(id) == IF id \in DOMAIN rows THEN <<rows[id]>> ELSE <<>>

\* multer: the uploaded file is in the cache directory before the handler runs.
Upload(photo) == IF photo = NoBytes THEN files ELSE files @@ (nextFile :> photo)
UploadedName(photo) == IF photo = NoBytes THEN NULL ELSE nextFile
NextFileAfter(photo) == IF photo = NoBytes THEN nextFile ELSE nextFile + 1

\* Faulty variant: the removal is never issued.
UnlinkedNever(f) == unlinks

\* fs.unlink(path, () => {}) is asynchronous: the call only queues the removal.
Unlinked(f) == unlinks \cup {f}

\* if (fs.existsSync(p)) fs.unlink(p, () => {}) for the photo of `item`.
UnlinkedPhotoOf(item) ==
    IF item.photo_filename # NULL /\ item.photo_filename \in DOMAIN files
    THEN Unlinked(item.photo_filename)
    ELSE unlinks

\* ------------------------------------------------------ POST /register
RegisterNameMissing(name) == ~Truthy(name) \/ trim(name[2]) = <<>>

RegisterRecv(r, limit) ==
    \E name \in FormNames, desc \in FormDescriptions, photo \in RegisterPhotos \cup {NoBytes} :
        LET q == [Idle EXCEPT !.op = "register", !.photo = photo,
                              !.file = UploadedName(photo)]
        IN  /\ Accept(r, limit)
            /\ served' = served + 1
            /\ files' = Upload(photo)
            /\ nextFile' = NextFileAfter(photo)
            /\ IF RegisterNameMissing(name)
               THEN /\ unlinks' = IF q.file # NULL THEN Unlinked(q.file) ELSE unlinks
                    /\ reqs' = [reqs EXCEPT ![r] = Responded(q, 400, NoDto, NoBytes)]
               ELSE /\ unlinks' = unlinks
                    /\ reqs' = [reqs EXCEPT ![r] =
                                  [q EXCEPT !.pc = "insert", !.name = name,
                                            !.description = desc]]
            /\ UNCHANGED <<rows, nextId, alive, storeUp>>

\* const description = req.body.description || ''
DescriptionOrEmpty(desc) == IF Truthy(desc) THEN desc[2] ELSE <<>>

\* INSERT INTO inventory ... VALUES (name.trim(), description, photoFilename)
InsertedRow(q) ==
    [id |-> nextId, inventory_name |-> trim(q.name[2]),
     description |-> DescriptionOrEmpty(q.description), photo_filename |-> q.file]

RegisterInsert(r) ==
        LET err == ~storeUp
            q == reqs[r]
        IN  /\ At(r, "register", "insert")
            /\ IF err
               THEN /\ unlinks' = IF q.file # NULL THEN Unlinked(q.file) ELSE unlinks
                    /\ reqs' = [reqs EXCEPT ![r] = Responded(q, 500, NoDto, NoBytes)]
                    /\ UNCHANGED <<rows, nextId>>
               ELSE /\ rows' = rows @@ (nextId :> InsertedRow(q))
                    /\ nextId' = nextId + 1
                    /\ reqs' = [reqs EXCEPT ![r] =
                                  [q EXCEPT !.pc = "select", !.insertedId = nextId]]
                    /\ UNCHANGED unlinks
            /\ UNCHANGED <<files, nextFile, served, alive, storeUp>>

RegisterSelect(r) ==
        LET err2 == ~storeUp
            q == reqs[r]
            next == IF err2
                    THEN Responded(q, 500, NoDto, NoBytes)
                    ELSE JsonFirstRow(q, 201, SelectById(q.insertedId))
        IN  /\ At(r, "register", "select")
            /\ reqs' = [reqs EXCEPT ![r] = next]
            /\ alive' = (next.pc # "fault")
            /\ UNCHANGED <<rows, nextId, files, nextFile, unlinks, served, storeUp>>

\* --------------------------------------------------- GET /inventory/:id
GetByIdRecv(r, limit) ==
    \E idp \in IdParams :
        LET q == [Idle EXCEPT !.op = "getById", !.idp = idp]
        IN  /\ Accept(r, limit)
            /\ served' = served + 1
            /\ reqs' = [reqs EXCEPT ![r] =
                          IF parseInt(idp) = NaN
                          THEN Responded(q, 400, NoDto, NoBytes)
                          ELSE [q EXCEPT !.pc = "select"]]
            /\ UNCHANGED <<rows, nextId, files, nextFile, unlinks, alive, storeUp>>

\* Faulty variant: a missing row is reported as an internal error.
GetByIdAnswerError(q, found) ==
    IF found = <<>>
    THEN Responded(q, 500, NoDto, NoBytes)
    ELSE Responded(q, 200, itemToDto(found[1]), NoBytes)

\* What the SELECT callback of GET /inventory/:id answers for `id`.
GetByIdAnswer(q, found) ==
    IF found = <<>>
    THEN Responded(q, 404, NoDto, NoBytes)
    ELSE Responded(q, 200, itemToDto(found[1]), NoBytes)

GetByIdSelect(r) ==
        LET err == ~storeUp
            q == reqs[r]
        IN  /\ At(r, "getById", "select")
            /\ reqs' = [reqs EXCEPT ![r] =
                          IF err
                          THEN Responded(q, 500, NoDto, NoBytes)
                          ELSE GetByIdAnswer(q, SelectById(parseInt(q.idp)[1]))]
            /\ UNCHANGED <<rows, nextId, files, nextFile, unlinks, served, alive, storeUp>>

\* --------------------------------------------------- PUT /inventory/:id
UpdateMetadataRecv(r, limit) ==
    \E idp \in IdParams, name \in JsonNames, desc \in JsonDescriptions :
        LET q == [Idle EXCEPT !.op = "updateMetadata", !.idp = idp]
        IN  /\ Accept(r, limit)
            /\ served' = served + 1
            /\ reqs' = [reqs EXCEPT ![r] =
                          IF parseInt(idp) = NaN
                          THEN Responded(q, 400, NoDto, NoBytes)
                          ELSE [q EXCEPT !.pc = "check", !.name = name,
                                         !.description = desc]]
            /\ UNCHANGED <<rows, nextId, files, nextFile, unlinks, alive, storeUp>>

UpdateMetadataCheck(r) ==
        LET err == ~storeUp
            q == reqs[r]
            existing == SelectById(parseInt(q.idp)[1])
        IN  /\ At(r, "updateMetadata", "check")
            /\ reqs' = [reqs EXCEPT ![r] =
                          IF err THEN Responded(q, 500, NoDto, NoBytes)
                          ELSE IF existing = <<>> THEN Responded(q, 404, NoDto, NoBytes)
                          ELSE [q EXCEPT !.pc = "update"]]
            /\ UNCHANGED <<rows, nextId, files, nextFile, unlinks, served, alive, storeUp>>

\* Faulty variant: an omitted field overwrites the column with the empty string.
CoalesceOverwrite(v, column) == IF IsString(v) THEN v[2] ELSE <<>>

\* COALESCE(?, column) with the parameter typeof v === 'string' ? v : null
Coalesce(v, column) == IF IsString(v) THEN v[2] ELSE column

\* UPDATE inventory SET inventory_name = COALESCE(?, inventory_name),
\*                      description = COALESCE(?, description) WHERE id = ?
UpdatedRow(row, name, description) ==
    [row EXCEPT !.inventory_name = Coalesce(name, @),
                !.description = Coalesce(description, @)]

UpdateMetadataUpdate(r) ==
        LET err2 == ~storeUp
            q == reqs[r]
            id == parseInt(q.idp)[1]
        IN  /\ At(r, "updateMetadata", "update")
            /\ IF err2
               THEN /\ reqs' = [reqs EXCEPT ![r] = Responded(q, 500, NoDto, NoBytes)]
                    /\ UNCHANGED rows
               ELSE /\ rows' = IF id \in DOMAIN rows
                               THEN [rows EXCEPT ![id] =
                                       UpdatedRow(@, q.name, q.description)]
                               ELSE rows
                    /\ reqs' = [reqs EXCEPT ![r] = [q EXCEPT !.pc = "select"]]
            /\ UNCHANGED <<nextId, files, nextFile, unlinks, served, alive, storeUp>>

UpdateMetadataSelect(r) ==
        LET err3 == ~storeUp
            q == reqs[r]
            next == IF err3
                    THEN Responded(q, 500, NoDto, NoBytes)
                    ELSE JsonFirstRow(q, 200, SelectById(parseInt(q.idp)[1]))
        IN  /\ At(r, "updateMetadata", "select")
            /\ reqs' = [reqs EXCEPT ![r] = next]
            /\ alive' = (next.pc # "fault")
            /\ UNCHANGED <<rows, nextId, files, nextFile, unlinks, served, storeUp>>

\* --------------------------------------------- GET /inventory/:id/photo
GetPhotoRecv(r, limit) ==
    \E idp \in IdParams :
        LET q == [Idle EXCEPT !.op = "getPhoto", !.idp = idp]
        IN  /\ Accept(r, limit)
            /\ served' = served + 1
            /\ reqs' = [reqs EXCEPT ![r] =
                          IF parseInt(idp) = NaN
                          THEN Responded(q, 400, NoDto, NoBytes)
                          ELSE [q EXCEPT !.pc = "select"]]
            /\ UNCHANGED <<rows, nextId, files, nextFile, unlinks, alive, storeUp>>

\* What the SELECT callback of GET /inventory/:id/photo answers: 404 without
\* a row, without a photo_filename or without the file; the file's bytes else.
GetPhotoAnswer(q, found) ==
    IF found = <<>> \/ found[1].photo_filename = NULL
    THEN Responded(q, 404, NoDto, NoBytes)
    ELSE IF found[1].photo_filename \notin DOMAIN files
    THEN Responded(q, 404, NoDto, NoBytes)
    ELSE Responded(q, 200, NoDto, files[found[1].photo_filename])

GetPhotoSelect(r) ==
        LET err == ~storeUp
            q == reqs[r]
        IN  /\ At(r, "getPhoto", "select")
            /\ reqs' = [reqs EXCEPT ![r] =
                          IF err
                          THEN Responded(q, 500, NoDto, NoBytes)
                          ELSE GetPhotoAnswer(q, SelectById(parseInt(q.idp)[1]))]
            /\ UNCHANGED <<rows, nextId, files, nextFile, unlinks, served, alive, storeUp>>

\* --------------------------------------------- PUT /inventory/:id/photo
ReplacePhotoRecv(r, limit) ==
    \E idp \in IdParams, photo \in ReplacementPhotos \cup {NoBytes} :
        LET q == [Idle EXCEPT !.op = "replacePhoto", !.idp = idp,
                              !.photo = photo, !.file = UploadedName(photo)]
        IN  /\ Accept(r, limit)
            /\ served' = served + 1
            /\ files' = Upload(photo)
            /\ nextFile' = NextFileAfter(photo)
            /\ IF parseInt(idp) = NaN
               THEN /\ unlinks' = IF q.file # NULL THEN Unlinked(q.file) ELSE unlinks
                    /\ reqs' = [reqs EXCEPT ![r] = Responded(q, 400, NoDto, NoBytes)]
               ELSE IF q.file = NULL
               THEN /\ unlinks' = unlinks
                    /\ reqs' = [reqs EXCEPT ![r] = Responded(q, 400, NoDto, NoBytes)]
               ELSE /\ unlinks' = unlinks
                    /\ reqs' = [reqs EXCEPT ![r] = [q EXCEPT !.pc = "select"]]
            /\ UNCHANGED <<rows, nextId, alive, storeUp>>

ReplacePhotoSelect(r) ==
        LET err == ~storeUp
            q == reqs[r]
            found == SelectById(parseInt(q.idp)[1])
        IN  /\ At(r, "replacePhoto", "select")
            /\ IF err
               THEN /\ unlinks' = Unlinked(q.file)
                    /\ reqs' = [reqs EXCEPT ![r] = Responded(q, 500, NoDto, NoBytes)]
               ELSE IF found = <<>>
               THEN /\ unlinks' = Unlinked(q.file)
                    /\ reqs' = [reqs EXCEPT ![r] = Responded(q, 404, NoDto, NoBytes)]
               ELSE /\ unlinks' = UnlinkedPhotoOf(found[1])
                    /\ reqs' = [reqs EXCEPT ![r] = [q EXCEPT !.pc = "update"]]
            /\ UNCHANGED <<rows, nextId, files, nextFile, served, alive, storeUp>>

\* Faulty variant: the pointer is not updated.
PhotoUpdatedRowKept(row, newPhotoFilename) == row

\* UPDATE inventory SET photo_filename = ? WHERE id = ?
PhotoUpdatedRow(row, newPhotoFilename) ==
    [row EXCEPT !.photo_filename = newPhotoFilename]

ReplacePhotoUpdate(r) ==
        LET err2 == ~storeUp
            q == reqs[r]
            id == parseInt(q.idp)[1]
        IN  /\ At(r, "replacePhoto", "update")
            /\ IF err2
               THEN /\ unlinks' = Unlinked(q.file)
                    /\ reqs' = [reqs EXCEPT ![r] = Responded(q, 500, NoDto, NoBytes)]
                    /\ UNCHANGED rows
               ELSE /\ rows' = IF id \in DOMAIN rows
                               THEN [rows EXCEPT ![id] = PhotoUpdatedRow(@, q.file)]
                               ELSE rows
                    /\ reqs' = [reqs EXCEPT ![r] = [q EXCEPT !.pc = "reselect"]]
                    /\ UNCHANGED unlinks
            /\ UNCHANGED <<nextId, files, nextFile, served, alive, storeUp>>

ReplacePhotoReselect(r) ==
        LET err3 == ~storeUp
            q == reqs[r]
            next == IF err3
                    THEN Responded(q, 500, NoDto, NoBytes)
                    ELSE JsonFirstRow(q, 200, SelectById(parseInt(q.idp)[1]))
        IN  /\ At(r, "replacePhoto", "reselect")
            /\ reqs' = [reqs EXCEPT ![r] = next]
            /\ alive' = (next.pc # "fault")
            /\ UNCHANGED <<rows, nextId, files, nextFile, unlinks, served, storeUp>>

\* ------------------------------------------------ DELETE /inventory/:id
DeleteItemRecv(r, limit) ==
    \E idp \in IdParams :
        LET q == [Idle EXCEPT !.op = "deleteItem", !.idp = idp]
        IN  /\ Accept(r, limit)
            /\ served' = served + 1
            /\ reqs' = [reqs EXCEPT ![r] =
                          IF parseInt(idp) = NaN
                          THEN Responded(q, 400, NoDto, NoBytes)
                          ELSE [q EXCEPT !.pc = "select"]]
            /\ UNCHANGED <<rows, nextId, files, nextFile, unlinks, alive, storeUp>>

DeleteItemSelect(r) ==
        LET err == ~storeUp
            q == reqs[r]
            found == SelectById(parseInt(q.idp)[1])
        IN  /\ At(r, "deleteItem", "select")
            /\ reqs' = [reqs EXCEPT ![r] =
                          IF err THEN Responded(q, 500, NoDto, NoBytes)
                          ELSE IF found = <<>> THEN Responded(q, 404, NoDto, NoBytes)
                          ELSE [q EXCEPT !.pc = "delete", !.item = found[1]]]
            /\ UNCHANGED <<rows, nextId, files, nextFile, unlinks, served, alive, storeUp>>

\* Faulty variant: the row is not removed.
RowsWithoutNone(id) == rows

\* DELETE FROM inventory WHERE id = ?
RowsWithout(id) == [i \in DOMAIN rows \ {id} |-> rows[i]]

\* The DELETE callback answers without looking at the statement's result.
DeleteItemAnswer(q) == Responded(q, 200, itemToDto(q.item), NoBytes)

DeleteItemDelete(r) ==
        LET err2 == ~storeUp
            q == reqs[r]
        IN  /\ At(r, "deleteItem", "delete")
            /\ IF err2
               THEN /\ reqs' = [reqs EXCEPT ![r] = Responded(q, 500, NoDto, NoBytes)]
                    /\ UNCHANGED <<rows, unlinks>>
               ELSE /\ rows' = RowsWithout(parseInt(q.idp)[1])
                    /\ unlinks' = UnlinkedPhotoOf(q.item)
                    /\ reqs' = [reqs EXCEPT ![r] = DeleteItemAnswer(q)]
            /\ UNCHANGED <<nextId, files, nextFile, served, alive, storeUp>>

\* ------------------------------------------------------------ filesystem
\* A queued fs.unlink is carried out: the file goes if it is still there
\* (ENOENT otherwise, which the empty callback ignores).  The thread pool
\* does this whatever the JS side is doing.
FilesWithout(f) == [g \in DOMAIN files \ {f} |-> files[g]]

FsUnlink ==
    \E f \in unlinks :
        /\ files' = FilesWithout(f)
        /\ unlinks' = unlinks \ {f}
        /\ UNCHANGED <<rows, nextId, nextFile, reqs, served, alive, storeUp>>

\* ------------------------------------------------------------ the store
\* The store stops answering (connection lost) and answers again; only a
\* request that is being handled can tell.
StoreFails ==
    /\ alive /\ InFlight # {}
    /\ storeUp
    /\ storeUp' = FALSE
    /\ UNCHANGED <<rows, nextId, files, nextFile, unlinks, reqs, served, alive>>

StoreRecovers ==
    /\ alive /\ InFlight # {}
    /\ ~storeUp
    /\ storeUp' = TRUE
    /\ UNCHANGED <<rows, nextId, files, nextFile, unlinks, reqs, served, alive>>

\* ------------------------------------------------------- specifications
Handle(r) ==
    \/ RegisterInsert(r)
    \/ RegisterSelect(r)
    \/ GetByIdSelect(r)
    \/ UpdateMetadataCheck(r)
    \/ UpdateMetadataUpdate(r)
    \/ UpdateMetadataSelect(r)
    \/ GetPhotoSelect(r)
    \/ ReplacePhotoSelect(r)
    \/ ReplacePhotoUpdate(r)
    \/ ReplacePhotoReselect(r)
    \/ DeleteItemSelect(r)
    \/ DeleteItemDelete(r)

Receive(r, limit) ==
    \/ RegisterRecv(r, limit)
    \/ GetByIdRecv(r, limit)
    \/ UpdateMetadataRecv(r, limit)
    \/ GetPhotoRecv(r, limit)
    \/ ReplacePhotoRecv(r, limit)
    \/ DeleteItemRecv(r, limit)

\* Clients send requests whenever they like: up to MaxInFlight are handled
\* at the same time, their store queries interleaved in any order.
Next ==
    \/ \E r \in Slots : Receive(r, MaxInFlight)
    \/ \E r \in Slots : Handle(r)
    \/ FsUnlink
    \/ StoreFails
    \/ StoreRecovers

Spec == Init /\ [][Next]_vars

\* One client that waits for each response before it sends the next request.
SeqNext ==
    \/ \E r \in Slots : Receive(r, 1)
    \/ \E r \in Slots : Handle(r)
    \/ FsUnlink
    \/ StoreFails
    \/ StoreRecovers

SeqSpec == Init /\ [][SeqNext]_vars

\* The thread pool carries out every queued unlink.
Fairness == WF_vars(FsUnlink)

FairSeqSpec == SeqSpec /\ Fairness

\* ============================================================ properties
FileNames == 1..MaxRequests
Ids == 1..MaxRequests
Digits == {"0", "1", "2", "3", "4", "5", "6", "7", "8", "9"}

\* The id a request names (its :id parameter parsed).
IdOf(q) == parseInt(q.idp)[1]

\* A callback of the request in slot r, at `pc` of handler `op`, runs in this step.
Runs(r, op, pc) ==
    /\ reqs[r].op = op
    /\ reqs[r].pc = pc
    /\ reqs'[r] # reqs[r]

\* A request of handler `op` arrives in slot r in this step.
Arrives(r, op) ==
    /\ reqs[r].pc \in {"idle", "done"}
    /\ reqs'[r] # reqs[r]
    /\ reqs'[r].op = op

\* The existence read of a handler: its first query.
LookupPc(op) == IF op = "updateMetadata" THEN "check" ELSE "select"

NonBlank(s) == \E i \in 1..Len(s) : s[i] # " "

PhotoUrlOf(id) == <<"/inventory/", id, "/photo">>

\* Every queued unlink is carried out.
UnlinksComplete == \A f \in FileNames : (f \in unlinks) ~> (f \notin DOMAIN files)

\* ------------------------------------------------------------------- C1
FailedWithFile(r) ==
    /\ reqs[r].pc = "done"
    /\ reqs[r].file # NULL
    /\ reqs[r].status \in {400, 404}

\* The step that answers 400/404 to a request with a file changes no row and
\* has issued the removal of the file.
FailedUploadStep ==
    \A r \in Slots :
        (/\ reqs'[r] # reqs[r]
         /\ reqs'[r].pc = "done"
         /\ reqs'[r].file # NULL
         /\ reqs'[r].status \in {400, 404})
        => /\ rows' = rows
           /\ reqs'[r].file \in unlinks'

\* register answers 400 unless the name has a non-blank character;
\* replacePhoto answers 400 to an id that does not start with a digit and 404
\* when the store finds no row.
FailedUploadCases ==
    \A r \in Slots :
        /\ Arrives(r, "register")
           => \/ reqs'[r].pc = "done" /\ reqs'[r].status = 400
              \/ /\ reqs'[r].pc = "insert"
                 /\ IsString(reqs'[r].name)
                 /\ NonBlank(reqs'[r].name[2])
        /\ (Arrives(r, "replacePhoto") /\ Head(reqs'[r].idp) \notin Digits)
           => reqs'[r].pc = "done" /\ reqs'[r].status = 400
        /\ (Runs(r, "replacePhoto", "select") /\ storeUp
              /\ IdOf(reqs[r]) \notin DOMAIN rows)
           => reqs'[r].pc = "done" /\ reqs'[r].status = 404

\* C1: a request with an uploaded file that ends in 400 (register without a
\* non-blank name, replacePhoto with an unparseable id) or in 404
\* (replacePhoto for an id without a row) changes no inventory row, and its
\* uploaded file is eventually gone from the cache directory.
FailedUploadLeavesNothing ==
    /\ [][FailedUploadStep /\ FailedUploadCases]_vars
    /\ \A f \in FileNames :
           (\E r \in Slots : FailedWithFile(r) /\ reqs[r].file = f)
               ~> (f \notin DOMAIN files)

FailedUploadCleaned ==
    \E r \in Slots :
        /\ reqs[r].op = "replacePhoto"
        /\ FailedWithFile(r)
        /\ reqs[r].status = 404
        /\ rows # <<>>
        /\ reqs[r].file \notin DOMAIN files

\* ------------------------------------------------------------------- C2
\* C2: every row's photo_filename is null or names a file of the cache
\* directory, in every state during and after a replacePhoto.
NoDanglingReference ==
    \A id \in DOMAIN rows :
        \/ rows[id].photo_filename = NULL
        \/ rows[id].photo_filename \in DOMAIN files

\* ------------------------------------------------------------------- C3
NotFoundOps == {"getById", "updateMetadata", "deleteItem", "getPhoto", "replacePhoto"}

NotFoundStep ==
    \A r \in Slots :
        (/\ reqs[r].op \in NotFoundOps
         /\ Runs(r, reqs[r].op, LookupPc(reqs[r].op))
         /\ storeUp
         /\ IdOf(reqs[r]) \notin DOMAIN rows)
        => /\ reqs'[r].pc = "done"
           /\ reqs'[r].status = 404
           /\ rows' = rows
           /\ files' = files
           /\ unlinks' \ unlinks \subseteq {reqs[r].file}

\* C3: when the store answers the existence read of getById, updateMetadata,
\* deleteItem, getPhoto or replacePhoto with no row for the id, the response
\* is 404 (not 500), no row and no file changes, and the only removal issued
\* is that of the request's own upload.
NotFoundConsistency == [][NotFoundStep]_vars

NotFoundAnswered ==
    \E r \in Slots :
        /\ reqs[r].op = "deleteItem"
        /\ reqs[r].pc = "done"
        /\ reqs[r].status = 404
        /\ DOMAIN rows = {1}
        /\ rows[1].photo_filename \in DOMAIN files

\* ------------------------------------------------------------------- C4
ReplacePhotoSteps ==
    \A r \in Slots :
        LET q == reqs[r]
            id == IdOf(q)
            old == rows[id].photo_filename
        IN  /\ (Runs(r, "replacePhoto", "select") /\ reqs'[r].pc = "update")
               => (old # NULL => old \notin DOMAIN files' \/ old \in unlinks')
            /\ (Runs(r, "replacePhoto", "update") /\ reqs'[r].pc = "reselect")
               => /\ id \in DOMAIN rows /\ id \in DOMAIN rows'
                  /\ rows'[id].photo_filename = q.file
                  /\ q.file \in DOMAIN files'
                  /\ old # NULL =>
                       /\ \A j \in DOMAIN rows' : rows'[j].photo_filename # old
                       /\ old \notin DOMAIN files' \/ old \in unlinks'
            /\ (Runs(r, "replacePhoto", "reselect") /\ reqs'[r].status = 200)
               => /\ reqs'[r].dto.id = id
                  /\ reqs'[r].dto.photoUrl = PhotoUrlOf(id)
                  /\ LET got == GetPhotoAnswer([Idle EXCEPT !.op = "getPhoto",
                                                            !.idp = q.idp],
                                               SelectById(id))
                     IN  got.status = 200 /\ got.bytes = q.photo

DeleteItemSteps ==
    /\ \A r \in Slots :
        LET q == reqs[r]
            id == IdOf(q)
        IN  /\ (Runs(r, "deleteItem", "delete") /\ reqs'[r].status = 200)
               => /\ id \in DOMAIN rows
                  /\ reqs'[r].dto =
                       [id |-> id,
                        inventory_name |-> rows[id].inventory_name,
                        description |-> rows[id].description,
                        photoUrl |-> IF rows[id].photo_filename = NULL
                                     THEN <<>> ELSE PhotoUrlOf(id)]
                  /\ id \notin DOMAIN rows'
                  /\ files' = files
                  /\ rows[id].photo_filename # NULL =>
                       \/ rows[id].photo_filename \notin DOMAIN files'
                       \/ rows[id].photo_filename \in unlinks'
            /\ (/\ q.op \in {"getById", "getPhoto"}
                /\ Runs(r, q.op, "select")
                /\ storeUp
                /\ id \notin DOMAIN rows)
               => reqs'[r].status = 404
    /\ \A id \in Ids : (id < nextId /\ id \notin DOMAIN rows) => id \notin DOMAIN rows'

\* C5: a deleteItem that answers 200 answers the DTO of the row as it was,
\* removes the row while the blob is still in place and issues the blob's
\* removal; an id once deleted never has a row again, so getById and getPhoto
\* answer 404 for it from then on; and the blob is eventually gone.
DeletionLifecycle == [][DeleteItemSteps]_vars /\ UnlinksComplete

ItemDeleted ==
    \E r \in Slots :
        /\ reqs[r].op = "deleteItem"
        /\ reqs[r].pc = "done"
        /\ reqs[r].status = 200
        /\ reqs[r].dto.photoUrl = PhotoUrlOf(1)
        /\ served = 2
        /\ rows = <<>>
        /\ files = <<>>

\* ------------------------------------------------------------------- C6
UpdateMetadataSteps ==
    \A r \in Slots :
        LET q == reqs[r]
            id == IdOf(q)
        IN  /\ (Runs(r, "updateMetadata", "update") /\ reqs'[r].pc = "select")
               => /\ id \in DOMAIN rows
                  /\ DOMAIN rows' = DOMAIN rows
                  /\ \A j \in DOMAIN rows : j # id => rows'[j] = rows[j]
                  /\ rows'[id].id = id
                  /\ rows'[id].photo_filename = rows[id].photo_filename
                  /\ rows'[id].inventory_name =
                       IF IsString(q.name) THEN q.name[2] ELSE rows[id].inventory_name
                  /\ rows'[id].description =
                       IF IsString(q.description) THEN q.description[2]
                       ELSE rows[id].description
                  /\ (~IsString(q.name) /\ ~IsString(q.description)) => rows' = rows
                  /\ UpdatedRow(rows'[id], q.name, q.description) = rows'[id]
            /\ (Runs(r, "updateMetadata", "select") /\ reqs'[r].status = 200)
               => /\ id \in DOMAIN rows
                  /\ reqs'[r].dto =
                       [id |-> id,
                        inventory_name |-> rows[id].inventory_name,
                        description |-> rows[id].description,
                        photoUrl |-> IF rows[id].photo_filename = NULL
                                     THEN <<>> ELSE PhotoUrlOf(id)]

\* C6: the UPDATE of updateMetadata overwrites the fields given as strings
\* and nothing else (not the other field, the photo_filename or another row);
\* without such a field the table is unchanged; the same update applied to
\* the updated row changes nothing; and the 200 response is the DTO of the
\* row as updated.
PartialUpdate == [][UpdateMetadataSteps]_vars

NameOverwritten ==
    \E r \in Slots :
        /\ reqs[r].op = "updateMetadata"
        /\ reqs[r].pc = "done"
        /\ reqs[r].status = 200
        /\ reqs[r].dto.inventory_name = <<"b">>
        /\ reqs[r].dto.description = <<"d">>

\* ------------------------------------------------------------------- C7
\* t is s without its leading and trailing blanks.
IsTrimOf(t, s) ==
    \E i, j \in 0..Len(s) :
        /\ i + j <= Len(s)
        /\ t = SubSeq(s, i + 1, Len(s) - j)
        /\ \A k \in 1..i : s[k] = " "
        /\ \A k \in (Len(s) - j + 1)..Len(s) : s[k] = " "
        /\ t # <<>> => t[1] # " " /\ t[Len(t)] # " "

RegisterSteps ==
    \A r \in Slots :
        LET q == reqs[r]
            id == q.insertedId
        IN  /\ (Runs(r, "register", "insert") /\ reqs'[r].pc = "select")
               => /\ reqs'[r].insertedId \notin DOMAIN rows
                  /\ reqs'[r].insertedId >= nextId
                  /\ nextId' > reqs'[r].insertedId
                  /\ reqs'[r].insertedId \in DOMAIN rows'
            /\ (Runs(r, "register", "select") /\ reqs'[r].status = 201)
               => /\ reqs'[r].dto.id = id
                  /\ IsTrimOf(reqs'[r].dto.inventory_name, q.name[2])
                  /\ reqs'[r].dto.description =
                       IF IsString(q.description) THEN q.description[2] ELSE <<>>
                  /\ reqs'[r].dto.photoUrl =
                       IF q.file = NULL THEN <<>> ELSE PhotoUrlOf(id)
                  /\ LET got == GetByIdAnswer([Idle EXCEPT !.op = "getById"],
                                              SelectById(id))
                     IN  got.status = 200 /\ got.dto = reqs'[r].dto

\* C7: register's INSERT takes an id no row has and none had before; its 201
\* response, which is also what getById of that id then answers, carries the
\* name trimmed, the description (empty when omitted) and a photoUrl that is
\* null exactly when no photo came with the request, /inventory/{id}/photo
\* otherwise.
RegisterRoundTrip == [][RegisterSteps]_vars

RegisteredWithPhoto ==
    \E r \in Slots :
        /\ reqs[r].op = "register"
        /\ reqs[r].pc = "done"
        /\ reqs[r].status = 201
        /\ reqs[r].dto.inventory_name = <<"a">>
        /\ reqs[r].dto.description = <<>>
        /\ reqs[r].dto.photoUrl = PhotoUrlOf(2)

\* ------------------------------------------------------------------- C8
\* C8: no request ends in an exception that escapes its callback.
NoUnhandledFault == \A r \in Slots : reqs[r].pc # "fault"

\* ------------------------------------------------------------------- C9
\* C9: every row's inventory_name has a non-blank character.
NameInvariant == \A id \in DOMAIN rows : NonBlank(rows[id].inventory_name)

\* ------------------------------------------------------------------ C10
DeletedOk(r, id) ==
    /\ reqs[r].op = "deleteItem"
    /\ reqs[r].pc = "done"
    /\ reqs[r].status = 200
    /\ reqs[r].dto.id = id

\* C10: no two deleteItem requests answer 200 for the same id.
AtMostOnceDeletion ==
    \A id \in Ids : \A r1, r2 \in Slots : (DeletedOk(r1, id) /\ DeletedOk(r2, id)) => r1 = r2

====
